---- MODULE Spec2Model ----
(***************************************************************************)
(* Model of trading_app.py (Marks FX Academy Trading Analysis).            *)
(*                                                                         *)
(* Numbers.  Prices, ATR and distances are fixed-point integers counting   *)
(* units of 1/400 (0.0025): a price of 2000.00 is 800000, a pip value of   *)
(* 0.01 is 4.  Provider values are whole hundredths (multiples of 4), so   *)
(* halving a range, multiplying by 1.5 twice and dividing by a pip value   *)
(* are exact.  RSI is a plain integer.  Python's None is the empty         *)
(* sequence and a number n is <<n>>; a dict is a function whose DOMAIN is  *)
(* its key set, so "k in d" is k \in DOMAIN d.                             *)
(***************************************************************************)
EXTENDS Integers, Sequences, FiniteSets, TLC

VARIABLES
    session,         \* the widget values Streamlit holds for the session
    rerun_requested, \* Streamlit: a widget changed and the script must run again
    selected_pairs,  \* sidebar multiselect as this run of the script read it
    auto_refresh,    \* sidebar checkbox as this run of the script read it
    feed,            \* the responses the data provider may give in this run
    pc,              \* position of the script
    idx,             \* number of analyze_pair calls that returned
    tf_idx,          \* analyze_pair: number of timeframes already fetched
    tfset,           \* analyze_pair: TimeframeSet being assembled
    requests,        \* outbound provider requests of the current analyze_pair
    analyzed,        \* analyze_pair calls that returned, with what each returned
    results,         \* run_analysis: results list
    sink,            \* what the script has emitted through st.* in this run
    provider,        \* a single fetch: the provider's outcome
    fetch_out,       \* a single fetch: what get_tradingview_data did
    lv_in,           \* a single level calculation: its arguments
    lv_out           \* a single level calculation: what it returned

vars == <<session, rerun_requested, selected_pairs, auto_refresh, feed, pc, idx, tf_idx, tfset, requests,
          analyzed, results, sink, provider, fetch_out, lv_in, lv_out>>

cycle_vars == <<session, rerun_requested, selected_pairs, auto_refresh, feed, pc, idx, tf_idx, tfset,
                requests, analyzed, results, sink>>

----------------------------------------------------------------------------
(* Values *)

None == <<>>
Num(n) == <<n>>
IsNum(x) == Len(x) = 1
Val(x) == x[1]

Abs(x) == IF x < 0 THEN -x ELSE x
Max2(a, b) == IF a >= b THEN a ELSE b
Max3(a, b, c) == Max2(a, Max2(b, c))

\* x * 0.5; exact on the grid of whole hundredths
Half(x) == x \div 2

\* x * (r[1] / r[2]) for a ratio written as <<numerator, denominator>>
Times(x, r) == (x * r[1]) \div r[2]

----------------------------------------------------------------------------
(* Configuration *)

PairNames == <<"XAUUSD", "AUDJPY", "GBPJPY", "SPX500", "USDJPY">>

Pairs == {PairNames[i] : i \in 1..Len(PairNames)}

TARGET_PAIRS ==
    [p \in Pairs |->
        CASE p = "XAUUSD" -> [symbol |-> "XAUUSD", exchange |-> "FX", screener |-> "cfd", pip_value |-> 4]
          [] p = "AUDJPY" -> [symbol |-> "AUDJPY", exchange |-> "FX", screener |-> "forex", pip_value |-> 4]
          [] p = "GBPJPY" -> [symbol |-> "GBPJPY", exchange |-> "FX", screener |-> "forex", pip_value |-> 4]
          [] p = "SPX500" -> [symbol |-> "SPX", exchange |-> "SP", screener |-> "cfd", pip_value |-> 40]
          [] p = "USDJPY" -> [symbol |-> "USDJPY", exchange |-> "FX", screener |-> "forex", pip_value |-> 4]]

TimeframesWithout15M == <<"DAILY", "4H", "1H">>

TIMEFRAMES == <<"DAILY", "4H", "1H", "15M">>

Interval(tf) ==
    CASE tf = "DAILY" -> "1d"
      [] tf = "4H" -> "4h"
      [] tf = "1H" -> "1h"
      [] tf = "15M" -> "15m"

RISK_REWARD_RATIOS == <<(<<3, 2>>), (<<2, 1>>), (<<3, 1>>)>>

MIN_PIPS ==
    [p \in Pairs |->
        CASE p = "XAUUSD" -> 50
          [] p = "AUDJPY" -> 30
          [] p = "GBPJPY" -> 40
          [] p = "SPX500" -> 10
          [] p = "USDJPY" -> 20]

\* per-mille
FIB_LEVELS == <<236, 382, 500, 618, 786, 886>>

MultiplierOfTwo == <<2, 1>>

MIN_ATR_MULTIPLIER == <<3, 2>>

----------------------------------------------------------------------------
(* Indicator Fetcher *)

Message(level, msg, symbol, arg) ==
    [level |-> level, msg |-> msg, symbol |-> symbol, arg |-> arg]

TrueRangeHighLowOnly(ind) == Val(ind["high"]) - Val(ind["low"])

\* max(high - low, abs(high - close), abs(low - close))
TrueRange(ind) ==
    Max3(Val(ind["high"]) - Val(ind["low"]),
         Abs(Val(ind["high"]) - Val(ind["close"])),
         Abs(Val(ind["low"]) - Val(ind["close"])))

\* (high - low) * 0.5
HalfRange(ind) == Half(Val(ind["high"]) - Val(ind["low"]))

HasHLC(ind) == {"high", "low", "close"} \subseteq DOMAIN ind

\* The ATR the fallback assigns when the mapping has no ATR key.
AtrFallback(ind) == IF HasHLC(ind) THEN TrueRange(ind) ELSE HalfRange(ind)

\* The fallback arithmetic raises: TypeError on a None operand, KeyError on
\* indicators['high'] or indicators['low'] in the else branch.
AtrFallbackRaises(ind) ==
    IF HasHLC(ind)
    THEN \E k \in {"high", "low", "close"} : ~IsNum(ind[k])
    ELSE \E k \in {"high", "low"} : k \notin DOMAIN ind \/ ~IsNum(ind[k])

required_without_rsi == <<"close", "high", "low", "open">>

required_without_open == <<"close", "high", "low", "RSI">>

required == <<"close", "high", "low", "open", "RSI">>

MissingRequired(ind) == {i \in 1..Len(required) : required[i] \notin DOMAIN ind}

FirstMissing(ind) ==
    required[CHOOSE i \in MissingRequired(ind) : \A j \in MissingRequired(ind) : i <= j]

FailureSilent(ind, m) == [ret |-> None, indicators |-> ind, emitted |-> <<>>]

\* A failure path: the diagnostic goes to the display from inside the
\* function and the caller gets None.
Failure(ind, m) == [ret |-> None, indicators |-> ind, emitted |-> <<m>>]

\* What one call does: ret is the return value (None or <<snapshot>>),
\* indicators the provider's mapping as the call leaves it, emitted the
\* st.error / st.warning calls made inside the function.
get_tradingview_data(symbol_config, interval, resp) ==
    LET sym == symbol_config.symbol
        fetch_error(ind) == Failure(ind, Message("error", "Error fetching", sym, interval))
    IN  IF resp.kind = "raises"
        THEN fetch_error(resp.indicators)
        ELSE IF resp.kind \in {"empty", "no_indicators"}
        THEN Failure(resp.indicators, Message("error", "No analysis data returned", sym, interval))
        ELSE IF "ATR" \notin DOMAIN resp.indicators /\ AtrFallbackRaises(resp.indicators)
        THEN fetch_error(resp.indicators)
        ELSE LET ind == IF "ATR" \in DOMAIN resp.indicators
                        THEN resp.indicators
                        ELSE resp.indicators @@ ("ATR" :> Num(AtrFallback(resp.indicators)))
             IN  IF MissingRequired(ind) # {}
                 THEN Failure(ind, Message("warning", "Missing", sym, FirstMissing(ind)))
                 ELSE IF ~resp.has_summary
                 THEN fetch_error(ind)
                 ELSE [ret |-> <<[indicators |-> ind, summary |-> resp.summary]>>,
                       indicators |-> ind,
                       emitted |-> <<>>]

----------------------------------------------------------------------------
(* Multi-Timeframe Aggregator *)

\* The timeframe whose snapshot prices the entry; it has a next-higher timeframe.
PRIMARY_TIMEFRAME == "1H"

\* One pass of the loop over TIMEFRAMES: a snapshot is stored under its
\* label, a failed fetch leaves the set without that key.
AggregateStep(tfs, tf, out) ==
    IF out.ret # None THEN tfs @@ (tf :> out.ret[1]) ELSE tfs

\* What the aggregator hands back once every timeframe was tried.
get_multi_timeframe_data(tfs) ==
    IF PRIMARY_TIMEFRAME \in DOMAIN tfs THEN <<tfs>> ELSE None

----------------------------------------------------------------------------
(* Market Structure Analyzer *)

TIMEFRAME_WEIGHTS == <<8, 4, 2, 1>>

RSI_BULLISH == 55

RSI_BEARISH == 45

NEUTRAL_THRESHOLD == 3

Sign(x) == IF x > 0 THEN 1 ELSE IF x < 0 THEN -1 ELSE 0

\* (a) close against open
CandleVote(ind) ==
    IF IsNum(ind["close"]) /\ IsNum(ind["open"])
    THEN Sign(Val(ind["close"]) - Val(ind["open"]))
    ELSE 0

\* (b) RSI against neutral
RsiVote(ind) ==
    IF ~IsNum(ind["RSI"]) THEN 0
    ELSE IF Val(ind["RSI"]) > RSI_BULLISH THEN 1
    ELSE IF Val(ind["RSI"]) < RSI_BEARISH THEN -1
    ELSE 0

\* (c) the provider's own classification, the tie-break
SummaryVote(summary) ==
    IF summary.RECOMMENDATION \in {"BUY", "STRONG_BUY"} THEN 1
    ELSE IF summary.RECOMMENDATION \in {"SELL", "STRONG_SELL"} THEN -1
    ELSE 0

TimeframeScore(snap) ==
    2 * (CandleVote(snap.indicators) + RsiVote(snap.indicators)) + SummaryVote(snap.summary)

RECURSIVE WeightedVotes(_, _)
WeightedVotes(tfs, n) ==
    IF n = 0 THEN 0
    ELSE WeightedVotes(tfs, n - 1)
         + (IF TIMEFRAMES[n] \in DOMAIN tfs
            THEN TIMEFRAME_WEIGHTS[n] * TimeframeScore(tfs[TIMEFRAMES[n]])
            ELSE 0)

identify_market_structure(tfs) ==
    LET total == WeightedVotes(tfs, Len(TIMEFRAMES))
    IN  [bias |-> IF Abs(total) < NEUTRAL_THRESHOLD THEN "NEUTRAL"
                  ELSE IF total > 0 THEN "BULLISH" ELSE "BEARISH",
         score |-> total]

----------------------------------------------------------------------------
(* Liquidity Zone Locator *)

Zone(price, kind, strength) == [price |-> price, kind |-> kind, strength |-> strength]

\* One zone per Fibonacci ratio between the swing high and the swing low
\* (rounded down to the grid), and the swing high and low themselves with
\* the higher strength.
find_liquidity_zones(snap) ==
    LET ind == snap.indicators
    IN  IF ~(IsNum(ind["high"]) /\ IsNum(ind["low"])) THEN {}
        ELSE LET hi == Val(ind["high"])
                 lo == Val(ind["low"])
             IN  {Zone(hi - Times(hi - lo, <<FIB_LEVELS[i], 1000>>), "fib", 1) :
                     i \in 1..Len(FIB_LEVELS)}
                 \cup {Zone(hi, "resistance", 2), Zone(lo, "support", 2)}

----------------------------------------------------------------------------
(* Trade Level Calculator *)

\* max(minimum-pip floor * pip_value, ATR * MIN_ATR_MULTIPLIER)
StopDistance(atr, pip_value, min_pips) ==
    Max2(min_pips * pip_value, Times(atr, MIN_ATR_MULTIPLIER))

\* The band around the price inside which the entry snaps to a zone.
ZoneTolerance(atr) == Half(atr)

\* Zones on the side a pullback would reach, inside the band.
FavorableZones(price, bias, atr, zones) ==
    {z \in zones :
        /\ Abs(z.price - price) <= ZoneTolerance(atr)
        /\ IF bias = "BULLISH" THEN z.price <= price ELSE z.price >= price}

EntryPrice(price, bias, atr, zones) ==
    LET near == FavorableZones(price, bias, atr, zones)
    IN  IF near = {} THEN price
        ELSE LET z == CHOOSE z \in near :
                        \A y \in near : Abs(z.price - price) <= Abs(y.price - price)
             IN  z.price

\* entry + sign(bias) * r * stop_distance for each configured ratio r
TakeProfit(entry, dir, sd) ==
    [i \in 1..Len(RISK_REWARD_RATIOS) |-> entry + dir * Times(sd, RISK_REWARD_RATIOS[i])]

\* price and atr arrive as the snapshot holds them (None or <<n>>).
calculate_trade_levels(price, verdict, atr, pip_value, min_pips, zones) ==
    IF verdict.bias = "NEUTRAL" \/ ~IsNum(price) \/ ~IsNum(atr) THEN None
    ELSE IF Val(atr) <= 0 THEN None
    ELSE LET dir == IF verdict.bias = "BULLISH" THEN 1 ELSE -1
             sd == StopDistance(Val(atr), pip_value, min_pips)
             entry == EntryPrice(Val(price), verdict.bias, Val(atr), zones)
         IN  <<[entry |-> entry,
                stop_loss |-> entry - dir * sd,
                take_profit |-> TakeProfit(entry, dir, sd)]>>

----------------------------------------------------------------------------
(* Pair Analyzer *)

\* Runs structure, zones and levels on an assembled TimeframeSet; ret is the
\* TradeSetup (as <<setup>>) or None, stage the stage that stopped the pass.
analyze_pair(pair_name, pair_config, tfs) ==
    LET nothing(stage, bias, price, atr) ==
            [pair |-> pair_name, ret |-> None, stage |-> stage,
             timeframes |-> DOMAIN tfs, bias |-> bias, price |-> price, atr |-> atr]
    IN  IF get_multi_timeframe_data(tfs) = None
        THEN nothing("aggregation", "NONE", None, None)
        ELSE LET primary == tfs[PRIMARY_TIMEFRAME]
                 price == primary.indicators["close"]
                 atr == primary.indicators["ATR"]
                 verdict == identify_market_structure(tfs)
                 levels == calculate_trade_levels(price, verdict, atr,
                               pair_config.pip_value, MIN_PIPS[pair_name],
                               find_liquidity_zones(primary))
             IN  IF verdict.bias = "NEUTRAL"
                 THEN nothing("structure", verdict.bias, price, atr)
                 ELSE IF levels = None
                 THEN nothing("levels", verdict.bias, price, atr)
                 ELSE [pair |-> pair_name,
                       ret |-> <<[pair |-> pair_name,
                                  price |-> Val(price),
                                  trend |-> verdict.bias,
                                  entry |-> levels[1].entry,
                                  stop_loss |-> levels[1].stop_loss,
                                  take_profit |-> levels[1].take_profit,
                                  rsi |-> primary.indicators["RSI"],
                                  atr |-> Val(atr),
                                  pip_value |-> pair_config.pip_value]>>,
                       stage |-> "ok",
                       timeframes |-> DOMAIN tfs,
                       bias |-> verdict.bias, price |-> price, atr |-> atr]

----------------------------------------------------------------------------
(* Presentation: run_analysis and the script's main block *)

RiskPipsSigned(r) == ((r.entry - r.stop_loss) * 100) \div r.pip_value

\* abs(entry - stop_loss) / pip_value, in hundredths of a pip
RiskPips(r) == (Abs(r.entry - r.stop_loss) * 100) \div r.pip_value

RowSwapped(r) ==
    [Pair |-> r.pair, Price |-> r.price, Trend |-> r.trend, Entry |-> r.entry,
     Stop_Loss |-> r.stop_loss, Risk_pips |-> RiskPips(r),
     TP1 |-> r.take_profit[3], TP2 |-> r.take_profit[2], TP3 |-> r.take_profit[1],
     RSI |-> r.rsi, ATR |-> r.atr]

Row(r) ==
    [Pair |-> r.pair, Price |-> r.price, Trend |-> r.trend, Entry |-> r.entry,
     Stop_Loss |-> r.stop_loss, Risk_pips |-> RiskPips(r),
     TP1 |-> r.take_profit[1], TP2 |-> r.take_profit[2], TP3 |-> r.take_profit[3],
     RSI |-> r.rsi, ATR |-> r.atr]

CollectAlways(res, result) == Append(res, result)

\* if result: results.append(result)
Collect(res, result) == IF result # None THEN Append(res, result[1]) ELSE res

Note(level, msg) == Message(level, msg, "", "")

\* The sidebar: every run of the script reads the checkbox and the
\* multiselect from the session as they are at that moment, which serves a
\* change made before.
Sidebar ==
    /\ pc = "start"
    /\ selected_pairs' = session.selected_pairs
    /\ auto_refresh' = session.auto_refresh
    /\ rerun_requested' = FALSE
    /\ pc' = "main"
    /\ UNCHANGED <<session, feed, idx, tf_idx, tfset, requests, analyzed, results,
                   sink, provider, fetch_out, lv_in, lv_out>>

\* run_analysis, first st.* call: the subheader.  Every st.* call is a
\* point where Streamlit stops the script if a rerun has been requested, so
\* the call goes through only without a pending request.
StartAnalysis ==
    /\ pc = "main"
    /\ ~rerun_requested
    /\ sink' = Append(sink, Note("subheader", "Latest Market Analysis"))
    /\ pc' = "subheader"
    /\ UNCHANGED <<session, rerun_requested, selected_pairs, auto_refresh, feed, idx,
                   tf_idx, tfset, requests, analyzed, results, provider, fetch_out,
                   lv_in, lv_out>>

\* Second st.* call: the "Last updated" line.
WriteUpdated ==
    /\ pc = "subheader"
    /\ ~rerun_requested
    /\ sink' = Append(sink, Note("write", "Last updated"))
    /\ pc' = "updated"
    /\ UNCHANGED <<session, rerun_requested, selected_pairs, auto_refresh, feed, idx,
                   tf_idx, tfset, requests, analyzed, results, provider, fetch_out,
                   lv_in, lv_out>>

\* if not selected_pairs: the warning and the return; otherwise the spinner
\* is entered and results = [].
CheckSelection ==
    /\ pc = "updated"
    /\ ~rerun_requested
    /\ IF selected_pairs = <<>>
       THEN /\ sink' = Append(sink, Note("warning", "Please select at least one pair to analyze"))
            /\ pc' = "finished"
       ELSE /\ sink' = sink
            /\ pc' = "loop"
    /\ UNCHANGED <<session, rerun_requested, selected_pairs, auto_refresh, feed, idx,
                   tf_idx, tfset, requests, analyzed, results, provider, fetch_out,
                   lv_in, lv_out>>

\* The first pass of the loop: the pair's configuration is looked up and
\* analyze_pair is called.  The script defines no analyze_pair, so the call
\* raises NameError; nothing catches it and the script run ends there, with
\* no result, no further output and no rerun.
CallAnalyzePair ==
    /\ pc = "loop"
    /\ selected_pairs[idx + 1] \in DOMAIN TARGET_PAIRS
    /\ pc' = "crashed"
    /\ UNCHANGED <<session, rerun_requested, selected_pairs, auto_refresh, feed, idx, tf_idx, tfset, requests,
                   analyzed, results, sink, provider, fetch_out, lv_in, lv_out>>

\* run_analysis has returned: with auto_refresh as this run read it, the
\* script goes to sleep for five minutes; without it the run is over.
Sleep ==
    /\ pc = "finished"
    /\ auto_refresh
    /\ pc' = "sleeping"
    /\ UNCHANGED <<session, rerun_requested, selected_pairs, auto_refresh, feed, idx, tf_idx, tfset,
                   requests, analyzed, results, sink, provider, fetch_out, lv_in,
                   lv_out>>

\* The sleep is over: st.experimental_rerun() hands control back to
\* Streamlit, which runs the script again from the top with a fresh page.
Rerun ==
    /\ pc = "sleeping"
    /\ pc' = "start"
    /\ sink' = <<>>
    /\ UNCHANGED <<session, rerun_requested, selected_pairs, auto_refresh, feed, idx, tf_idx, tfset,
                   requests, analyzed, results, provider, fetch_out, lv_in, lv_out>>

----------------------------------------------------------------------------
(* The provider's responses *)

Analysis(ind, rec) ==
    [kind |-> "analysis", indicators |-> ind, has_summary |-> TRUE,
     summary |-> [RECOMMENDATION |-> rec]]

Indicators(o, h, l, c, rsi) ==
    [k \in {"open", "high", "low", "close", "RSI"} |->
        CASE k = "open" -> o [] k = "high" -> h [] k = "low" -> l
          [] k = "close" -> c [] k = "RSI" -> rsi]

WithATR(ind, atr) == ind @@ ("ATR" :> atr)

Without(ind, key) == [k \in DOMAIN ind \ {key} |-> ind[k]]

\* the request times out or the provider is unreachable
Down == [kind |-> "raises", indicators |-> <<>>, has_summary |-> FALSE,
         summary |-> [RECOMMENDATION |-> "NEUTRAL"]]

\* a rising candle around 2000.00 with a supplied ATR of 3.00
BullInd == Indicators(Num(799600), Num(800400), Num(799400), Num(800000), Num(60))

Bull == Analysis(WithATR(BullInd, Num(1200)), "BUY")

\* a falling narrow candle with no ATR supplied
Bear == Analysis(Indicators(Num(800040), Num(800040), Num(799960), Num(800000), Num(40)), "SELL")

\* no direction at all
Flat == Analysis(WithATR(Indicators(Num(800000), Num(800400), Num(799400), Num(800000), Num(50)),
                         Num(1200)), "NEUTRAL")

AtrZero == Analysis(WithATR(BullInd, Num(0)), "BUY")

AtrNull == Analysis(WithATR(BullInd, None), "BUY")

NoPrice == Analysis(WithATR([BullInd EXCEPT !["close"] = None], Num(1200)), "BUY")

NoRsi == Analysis(WithATR(Without(BullInd, "RSI"), Num(1200)), "BUY")

FullFeed == {Down, Bull, Flat, Bear, AtrZero, AtrNull, NoPrice, NoRsi}

----------------------------------------------------------------------------
(* The script run *)

MaxSelected == 2

RECURSIVE Selections(_)
Selections(n) ==
    IF n = 0 THEN {<<>>}
    ELSE Selections(n - 1)
         \cup {Append(s, p) : s \in {t \in Selections(n - 1) : Len(t) = n - 1},
                              p \in Pairs}

NoDuplicates(s) == \A i, j \in 1..Len(s) : i # j => s[i] # s[j]

IdleCycle ==
    /\ idx = 0
    /\ tf_idx = 0
    /\ tfset = <<>>
    /\ requests = <<>>
    /\ analyzed = <<>>
    /\ results = <<>>
    /\ sink = <<>>

IdleUnits ==
    /\ provider = Down
    /\ fetch_out = None
    /\ lv_in = None
    /\ lv_out = None

\* The values the two widgets can hold: the checkbox, and a duplicate-free
\* selection of up to MaxSelected instruments in selection order.
WidgetValues ==
    [selected_pairs : {s \in Selections(MaxSelected) : NoDuplicates(s)},
     auto_refresh : BOOLEAN]

\* The user changes a widget: Streamlit's server keeps the new value in the
\* session whatever the script is doing, and asks for the script to be run
\* again.
WidgetChange ==
    /\ session' \in WidgetValues \ {session}
    /\ rerun_requested' = TRUE
    /\ UNCHANGED <<selected_pairs, auto_refresh, feed, pc, idx, tf_idx, tfset,
                   requests, analyzed, results, sink, provider, fetch_out, lv_in,
                   lv_out>>

\* Streamlit serves a requested rerun where the script lets it: at the
\* script's next st.* call (the subheader, the "Last updated" line, the
\* warning or the spinner, which is then not made), or once the run is over,
\* by its end without auto-refresh or by the uncaught NameError.  A script
\* inside the loop makes no st.* call before line 128 raises, and a script
\* in time.sleep is not interrupted; its own st.experimental_rerun() comes
\* first.
Interrupt ==
    /\ rerun_requested
    /\ \/ pc \in {"main", "subheader", "updated"}
       \/ pc = "crashed"
       \/ pc = "finished" /\ ~auto_refresh
    /\ pc' = "start"
    /\ sink' = <<>>
    /\ UNCHANGED <<session, rerun_requested, selected_pairs, auto_refresh, feed, idx,
                   tf_idx, tfset, requests, analyzed, results, provider, fetch_out,
                   lv_in, lv_out>>

\* A session with any widget values, at the start of a run of the script
\* (the widgets' defaults are every instrument selected and auto-refresh on).
Init ==
    /\ session \in WidgetValues
    /\ rerun_requested = FALSE
    /\ selected_pairs = <<>>
    /\ auto_refresh = FALSE
    /\ feed = {}
    /\ pc = "start"
    /\ IdleCycle
    /\ IdleUnits

Next ==
    \/ Sidebar
    \/ StartAnalysis
    \/ WriteUpdated
    \/ CheckSelection
    \/ CallAnalyzePair
    \/ Sleep
    \/ Rerun
    \/ WidgetChange
    \/ Interrupt

Spec == Init /\ [][Next]_vars

----------------------------------------------------------------------------
(* The pair analyzer alone, as the specification describes it, with what
   the loop of run_analysis does with its return value *)

InitPair ==
    /\ selected_pairs \in {<<p>> : p \in Pairs}
    /\ auto_refresh = FALSE
    /\ session = [selected_pairs |-> selected_pairs, auto_refresh |-> auto_refresh]
    /\ rerun_requested = FALSE
    /\ feed = FullFeed
    /\ pc = "pair"
    /\ IdleCycle
    /\ IdleUnits

\* Aggregation: the next timeframe of the pair is fetched; the provider
\* answers with any response of the feed.
FetchTimeframe ==
    /\ pc = "pair"
    /\ tf_idx < Len(TIMEFRAMES)
    /\ \E resp \in feed :
          LET tf == TIMEFRAMES[tf_idx + 1]
              cfg == TARGET_PAIRS[selected_pairs[idx + 1]]
              out == get_tradingview_data(cfg, Interval(tf), resp)
          IN  /\ tfset' = AggregateStep(tfset, tf, out)
              /\ requests' = Append(requests, [symbol |-> cfg.symbol, tf |-> tf,
                                               ok |-> out.ret # None])
              /\ sink' = sink \o out.emitted
    /\ tf_idx' = tf_idx + 1
    /\ UNCHANGED <<session, rerun_requested, selected_pairs, auto_refresh, feed, pc, idx, analyzed, results,
                   provider, fetch_out, lv_in, lv_out>>

\* A call of analyze_pair as the log keeps it: what it returned and the
\* provider requests it made.
Logged(out, reqs) == ("requests" :> reqs) @@ out

\* The analyzer returns, and the caller keeps a non-empty result.
AnalyzePair ==
    /\ pc = "pair"
    /\ tf_idx = Len(TIMEFRAMES)
    /\ LET name == selected_pairs[idx + 1]
           out == analyze_pair(name, TARGET_PAIRS[name], tfset)
       IN  /\ analyzed' = Append(analyzed, Logged(out, requests))
           /\ results' = Collect(results, out.ret)
    /\ idx' = idx + 1
    /\ pc' = "returned"
    /\ UNCHANGED <<session, rerun_requested, selected_pairs, auto_refresh, feed, tf_idx, tfset, requests, sink,
                   provider, fetch_out, lv_in, lv_out>>

NextPair ==
    \/ FetchTimeframe
    \/ AnalyzePair

SpecPair == InitPair /\ [][NextPair]_vars

----------------------------------------------------------------------------
(* The fetcher alone: one call against any provider outcome *)

MaxTick == 2

Omitted == <<0, 0>>

\* whole hundredths from 0.00 up
TickValues == {Num(4 * k) : k \in 0..MaxTick}

FieldValues == {Omitted, None} \cup TickValues

Supplied(r) == [k \in {f \in DOMAIN r : r[f] # Omitted} |-> r[k]]

IndicatorMaps ==
    {Supplied(r) : r \in [open : FieldValues, high : FieldValues, low : FieldValues,
                          close : FieldValues, RSI : {Omitted, None, Num(50)},
                          ATR : FieldValues]}

ProviderOutcomes ==
    {Down,
     [Down EXCEPT !.kind = "empty"],
     [Down EXCEPT !.kind = "no_indicators"]}
    \cup {Analysis(ind, "BUY") : ind \in IndicatorMaps}
    \cup {[Analysis(ind, "NEUTRAL") EXCEPT !.has_summary = FALSE] : ind \in IndicatorMaps}

NoCycle ==
    /\ selected_pairs = <<>>
    /\ auto_refresh = FALSE
    /\ session = [selected_pairs |-> selected_pairs, auto_refresh |-> auto_refresh]
    /\ rerun_requested = FALSE
    /\ feed = {}
    /\ pc = "unit"
    /\ IdleCycle

InitFetch ==
    /\ provider \in ProviderOutcomes
    /\ fetch_out = None
    /\ lv_in = None
    /\ lv_out = None
    /\ NoCycle

Fetch ==
    /\ fetch_out = None
    /\ \E p \in Pairs, i \in 1..Len(TIMEFRAMES) :
          fetch_out' = <<get_tradingview_data(TARGET_PAIRS[p], Interval(TIMEFRAMES[i]), provider)>>
    /\ UNCHANGED <<provider, lv_in, lv_out>>
    /\ UNCHANGED cycle_vars

NextFetch == Fetch

SpecFetch == InitFetch /\ [][NextFetch]_vars

----------------------------------------------------------------------------
(* The level calculator alone, with the row run_analysis builds from it *)

MaxAtrTick == 10

AtrInputs == {None, Num(1200)} \cup {Num(4 * k) : k \in (-1)..MaxAtrTick}

PriceInputs == {None, Num(800000), Num(800100)}

SwingInputs == {<<800400, 799400>>, <<800040, 799960>>}

ZoneInputs ==
    {{}} \cup {find_liquidity_zones([indicators |-> Indicators(None, Num(hl[1]), Num(hl[2]), None, None)]) :
                  hl \in SwingInputs}

LevelInputs ==
    [pair : Pairs, price : PriceInputs, bias : {"BULLISH", "BEARISH", "NEUTRAL"},
     atr : AtrInputs, zones : ZoneInputs]

InitLevels ==
    /\ lv_in \in {<<a>> : a \in LevelInputs}
    /\ lv_out = None
    /\ provider = Down
    /\ fetch_out = None
    /\ NoCycle

\* The level stage of the pair analyzer on these arguments and, when it
\* yields a setup, the table row of that setup.
Levels ==
    /\ lv_out = None
    /\ LET a == lv_in[1]
           cfg == TARGET_PAIRS[a.pair]
           lv == calculate_trade_levels(a.price, [bias |-> a.bias, score |-> 0], a.atr,
                                        cfg.pip_value, MIN_PIPS[a.pair], a.zones)
           setup == [pair |-> a.pair, price |-> Val(a.price), trend |-> a.bias,
                     entry |-> lv[1].entry, stop_loss |-> lv[1].stop_loss,
                     take_profit |-> lv[1].take_profit, rsi |-> None,
                     atr |-> Val(a.atr), pip_value |-> cfg.pip_value]
       IN  lv_out' = <<IF lv = None THEN None ELSE <<setup, Row(setup)>> >>
    /\ UNCHANGED <<lv_in, provider, fetch_out>>
    /\ UNCHANGED cycle_vars

NextLevels == Levels

SpecLevels == InitLevels /\ [][NextLevels]_vars

----------------------------------------------------------------------------
(* Properties of the fetcher (checked under SpecFetch) *)

FetchDone == fetch_out # None

OHLC == {"open", "high", "low", "close"}

\* The provider answered with an analysis that has a summary and numeric
\* open, high, low and close.
PricesSupplied ==
    /\ provider.kind = "analysis"
    /\ provider.has_summary
    /\ \A k \in OHLC : k \in DOMAIN provider.indicators /\ IsNum(provider.indicators[k])

\* C5 as the specification states it: a response with close, high, low and
\* open but no RSI (the key absent, or its value null) still yields a snapshot.
C5_MissingRsiDoesNotFail ==
    (FetchDone /\ PricesSupplied
       /\ ("RSI" \notin DOMAIN provider.indicators \/ provider.indicators["RSI"] = None))
    => fetch_out[1].ret # None

\* C5 amended: with close, high, low and open supplied, a response without
\* an RSI key fails with the warning "Missing RSI" and returns None, while a
\* response whose RSI key holds null returns a snapshot carrying that null.
C5_RsiKeyRequiredNullTolerated ==
    (FetchDone /\ PricesSupplied)
    => /\ "RSI" \notin DOMAIN provider.indicators
            => /\ fetch_out[1].ret = None
               /\ Len(fetch_out[1].emitted) = 1
               /\ fetch_out[1].emitted[1].level = "warning"
               /\ fetch_out[1].emitted[1].arg = "RSI"
       /\ ("RSI" \in DOMAIN provider.indicators /\ provider.indicators["RSI"] = None)
            => /\ fetch_out[1].ret # None
               /\ fetch_out[1].ret[1].indicators["RSI"] = None

C5_Witness ==
    /\ FetchDone
    /\ PricesSupplied
    /\ "RSI" \notin DOMAIN provider.indicators
    /\ "ATR" \in DOMAIN provider.indicators
    /\ fetch_out[1].ret = None
    /\ fetch_out[1].emitted[1].arg = "RSI"

\* C6 as the specification states it, a missing field being one that is
\* absent or null: a provider exception, an empty or indicator-less
\* analysis, or indicators missing any of close, high, low, open (with or
\* without an ATR) makes the fetcher return None, and a returned snapshot is
\* never partially populated.
C6_NoPartialSnapshot ==
    FetchDone
    => /\ (\/ provider.kind # "analysis"
           \/ \E k \in OHLC : \/ k \notin DOMAIN provider.indicators
                              \/ ~IsNum(provider.indicators[k]))
            => fetch_out[1].ret = None
       /\ fetch_out[1].ret # None
            => \A k \in OHLC : /\ k \in DOMAIN fetch_out[1].ret[1].indicators
                               /\ IsNum(fetch_out[1].ret[1].indicators[k])

\* C6 amended: a provider exception, an empty or indicator-less analysis,
\* an analysis without a summary, or a mapping lacking the key of any of
\* close, high, low, open, RSI (with or without an ATR) makes the fetcher
\* return None, and no exception escapes.  A returned snapshot carries all
\* six keys and the summary, but a key holding null is not missing: with an
\* ATR entry supplied and the five keys present the mapping is returned as
\* it is, nulls included; without an ATR entry high, low and close of a
\* returned snapshot are numbers and only open and RSI may be null.
C6_AbsentKeyFailsNullPasses ==
    FetchDone
    => LET given == provider.indicators
           out == fetch_out[1]
           keyed == OHLC \cup {"RSI"} \subseteq DOMAIN given
       IN  /\ (\/ provider.kind # "analysis"
               \/ ~provider.has_summary
               \/ ~keyed)
                => out.ret = None
           /\ out.ret # None
                => /\ DOMAIN out.ret[1].indicators = OHLC \cup {"RSI", "ATR"}
                   /\ out.ret[1].summary = provider.summary
                   /\ "ATR" \notin DOMAIN given
                        => \A k \in {"high", "low", "close"} : IsNum(out.ret[1].indicators[k])
           /\ (provider.kind = "analysis" /\ provider.has_summary /\ keyed
                 /\ "ATR" \in DOMAIN given)
                => (out.ret # None /\ out.ret[1].indicators = given)
           /\ (provider.kind = "analysis" /\ provider.has_summary /\ keyed
                 /\ "ATR" \notin DOMAIN given
                 /\ \A k \in {"high", "low", "close"} : IsNum(given[k]))
                => (out.ret # None /\ out.ret[1].indicators["open"] = given["open"])

\* a snapshot returned with a null close, the provider having supplied an ATR
C6_Witness ==
    /\ FetchDone
    /\ provider.kind = "analysis"
    /\ provider.has_summary
    /\ "ATR" \in DOMAIN provider.indicators
    /\ fetch_out[1].ret # None
    /\ fetch_out[1].ret[1].indicators["close"] = None
    /\ IsNum(fetch_out[1].ret[1].indicators["open"])

\* C7 as the specification states it: every returned snapshot has ATR
\* populated with a number, and a provider-supplied ATR is kept unchanged.
C7_AtrAlwaysPopulated ==
    (FetchDone /\ fetch_out[1].ret # None)
    => /\ "ATR" \in DOMAIN fetch_out[1].ret[1].indicators
       /\ IsNum(fetch_out[1].ret[1].indicators["ATR"])
       /\ "ATR" \in DOMAIN provider.indicators
            => fetch_out[1].ret[1].indicators["ATR"] = provider.indicators["ATR"]

\* C7 amended: a returned snapshot always has an ATR entry.  An ATR entry of
\* the provider is kept as it is, a null included, so the returned ATR is a
\* number exactly when the provider's entry is a number or absent.  Without
\* an entry, whenever the fallback completes, the mapping gets the
\* one-period true range (the largest of high - low, |high - close|,
\* |low - close|) if high, low and close are all present, and half of
\* high - low otherwise; a returned snapshot is always in the first case.
C7_AtrKeptOrTrueRange ==
    FetchDone
    => LET given == provider.indicators
           left == fetch_out[1].indicators
           h == Val(given["high"])
           l == Val(given["low"])
           c == Val(given["close"])
       IN  /\ fetch_out[1].ret # None
                => /\ "ATR" \in DOMAIN fetch_out[1].ret[1].indicators
                   /\ fetch_out[1].ret[1].indicators = left
                   /\ IsNum(left["ATR"])
                        <=> ("ATR" \notin DOMAIN given \/ IsNum(given["ATR"]))
                   /\ "ATR" \notin DOMAIN given => {"high", "low", "close"} \subseteq DOMAIN given
           /\ (provider.kind = "analysis" /\ "ATR" \in DOMAIN given) => left = given
           /\ (provider.kind = "analysis" /\ "ATR" \notin DOMAIN given /\ "ATR" \in DOMAIN left)
                => /\ IsNum(left["ATR"])
                   /\ \A k \in DOMAIN given : left[k] = given[k]
                   /\ IF {"high", "low", "close"} \subseteq DOMAIN given
                      THEN /\ Val(left["ATR"]) \in {h - l, Abs(h - c), Abs(l - c)}
                           /\ Val(left["ATR"]) >= h - l
                           /\ Val(left["ATR"]) >= Abs(h - c)
                           /\ Val(left["ATR"]) >= Abs(l - c)
                      ELSE 2 * Val(left["ATR"]) = h - l

\* a snapshot whose ATR is the true range, set by the close lying outside
\* the high-low range
C7_Witness ==
    /\ FetchDone
    /\ fetch_out[1].ret # None
    /\ "ATR" \notin DOMAIN provider.indicators
    /\ Val(fetch_out[1].ret[1].indicators["ATR"])
         > Val(provider.indicators["high"]) - Val(provider.indicators["low"])
    /\ Val(provider.indicators["high"]) > Val(provider.indicators["low"])

\* C10 as the specification states it: nothing is emitted to the display
\* from inside the fetcher.
C10_FetcherEmitsNothing == FetchDone => fetch_out[1].emitted = <<>>

\* C10 amended: every failing call emits exactly one diagnostic to the
\* display from inside the fetcher (an error for a missing analysis object
\* and for an exception, a warning naming the first missing required field)
\* and hands the caller a bare None; a successful call emits nothing; the
\* call changes nothing else than the provider's mapping, by the ATR entry.
C10_OneDiagnosticPerFailure ==
    FetchDone
    => LET out == fetch_out[1]
       IN  /\ out.ret = None <=> Len(out.emitted) = 1
           /\ out.ret # None => out.emitted = <<>>
           /\ provider.kind \in {"empty", "no_indicators"}
                => (out.emitted[1].level = "error"
                    /\ out.emitted[1].msg = "No analysis data returned")
           /\ provider.kind = "raises"
                => (out.emitted[1].level = "error" /\ out.emitted[1].msg = "Error fetching")
           /\ (out.ret = None /\ out.emitted[1].level = "warning")
                => (out.emitted[1].arg \in OHLC \cup {"RSI"}
                    /\ out.emitted[1].arg \notin DOMAIN out.indicators)
           /\ \A k \in DOMAIN provider.indicators : out.indicators[k] = provider.indicators[k]
           /\ DOMAIN out.indicators \subseteq DOMAIN provider.indicators \cup {"ATR"}

C10_Witness ==
    /\ FetchDone
    /\ fetch_out[1].ret = None
    /\ fetch_out[1].emitted[1].level = "warning"
    /\ fetch_out[1].emitted[1].arg = "close"

----------------------------------------------------------------------------
(* Properties of the trade levels (checked under SpecLevels) *)

SetupReturned == lv_out # None /\ lv_out[1] # None

\* C1: for every returned setup the stop distance |entry - stop_loss| is the
\* larger of MIN_PIPS[instrument] * pip_value and 1.5 * ATR, so it is at least
\* each of them, snapped entry or not, and the table's "Risk (pips)" of the
\* setup is at least MIN_PIPS[instrument].
C1_StopDistanceFloors ==
    SetupReturned
    => LET a == lv_in[1]
           setup == lv_out[1][1]
           row == lv_out[1][2]
           d == Abs(setup.entry - setup.stop_loss)
           floor == MIN_PIPS[a.pair] * TARGET_PAIRS[a.pair].pip_value
       IN  /\ d >= floor
           /\ 2 * d >= 3 * Val(a.atr)
           /\ d = floor \/ 2 * d = 3 * Val(a.atr)
           /\ row.Risk_pips >= 100 * MIN_PIPS[a.pair]
           /\ row.Risk_pips * setup.pip_value = 100 * d

\* a snapped entry whose stop distance is the minimum-pip floor
C1_Witness ==
    /\ SetupReturned
    /\ lv_out[1][1].entry # lv_out[1][1].price
    /\ 2 * Abs(lv_out[1][1].entry - lv_out[1][1].stop_loss) > 3 * lv_out[1][1].atr
    /\ lv_out[1][2].Risk_pips = 100 * MIN_PIPS[lv_in[1].pair]

\* C2: every returned setup has exactly three take-profit values, ordered
\* stop_loss < entry < TP1 < TP2 < TP3 for a bullish and
\* stop_loss > entry > TP1 > TP2 > TP3 for a bearish setup, in the setup and
\* in its table row.
C2_LevelsOrdered ==
    SetupReturned
    => LET setup == lv_out[1][1]
           row == lv_out[1][2]
           tp == setup.take_profit
       IN  /\ DOMAIN tp = 1..3
           /\ setup.trend \in {"BULLISH", "BEARISH"}
           /\ setup.trend = "BULLISH"
                => /\ setup.stop_loss < setup.entry /\ setup.entry < tp[1]
                   /\ tp[1] < tp[2] /\ tp[2] < tp[3]
                   /\ row.Stop_Loss < row.Entry /\ row.Entry < row.TP1
                   /\ row.TP1 < row.TP2 /\ row.TP2 < row.TP3
           /\ setup.trend = "BEARISH"
                => /\ setup.stop_loss > setup.entry /\ setup.entry > tp[1]
                   /\ tp[1] > tp[2] /\ tp[2] > tp[3]
                   /\ row.Stop_Loss > row.Entry /\ row.Entry > row.TP1
                   /\ row.TP1 > row.TP2 /\ row.TP2 > row.TP3

C2_Witness ==
    /\ SetupReturned
    /\ lv_out[1][1].trend = "BEARISH"
    /\ lv_out[1][1].entry # lv_out[1][1].price
    /\ lv_out[1][2].TP3 < lv_out[1][2].TP1

\* the scenario's arguments: XAUUSD at 2000.00, ATR 3.0, bullish, no zone
XauScenario ==
    lv_in = <<[pair |-> "XAUUSD", price |-> Num(800000), bias |-> "BULLISH",
               atr |-> Num(1200), zones |-> {}]>>

\* C3: for every returned setup take_profit[i] is entry + sign * r * stop
\* distance for r = 1.5, 2, 3; XAUUSD (pip value 0.01, 50 pips) at 2000.00
\* with ATR 3.0, bullish, gives stop distance 4.5, stop_loss 1995.50 and
\* take_profit 2006.75, 2009.00, 2013.50.
C3_TakeProfitRatios ==
    /\ SetupReturned
         => LET setup == lv_out[1][1]
                dir == IF setup.trend = "BULLISH" THEN 1 ELSE -1
                d == Abs(setup.entry - setup.stop_loss)
            IN  /\ 2 * (setup.take_profit[1] - setup.entry) = dir * 3 * d
                /\ setup.take_profit[2] - setup.entry = dir * 2 * d
                /\ setup.take_profit[3] - setup.entry = dir * 3 * d
                /\ setup.entry - setup.stop_loss = dir * d
    /\ (XauScenario /\ lv_out # None)
         => /\ TARGET_PAIRS["XAUUSD"].pip_value = 4
            /\ MIN_PIPS["XAUUSD"] = 50
            /\ lv_out[1] # None
            /\ lv_out[1][1].entry = 800000
            /\ lv_out[1][1].stop_loss = 798200
            /\ lv_out[1][1].take_profit = <<802700, 803600, 805400>>

C3_Witness ==
    /\ XauScenario
    /\ SetupReturned
    /\ lv_out[1][1].stop_loss = 798200

----------------------------------------------------------------------------
(* Properties of the pair analyzer (checked under SpecPair) *)

\* the pass got past aggregation and met a neutral verdict, a missing or
\* non-positive ATR, or a missing price
NoSetupCase(a) ==
    /\ a.stage # "aggregation"
    /\ \/ a.bias = "NEUTRAL"
       \/ ~IsNum(a.price)
       \/ ~IsNum(a.atr)
       \/ Val(a.atr) <= 0

Returned(log) == {i \in 1..Len(log) : log[i].ret # None}

\* C4: an instrument whose verdict is neutral, whose ATR is missing or not
\* positive, or whose price is missing gets nothing back from the analyzer,
\* and the results list gains an entry only for a pass that returned a setup.
C4_NoSetupNoEntry ==
    /\ Len(results) = Cardinality(Returned(analyzed))
    /\ \A i \in 1..Len(analyzed) :
          NoSetupCase(analyzed[i])
          => /\ analyzed[i].ret = None
             /\ analyzed[i].stage \in {"structure", "levels"}
             /\ i \notin Returned(analyzed)

\* a pass that ended with a directional verdict but an ATR of zero
C4_Witness ==
    /\ pc = "returned"
    /\ Len(analyzed) = 1
    /\ analyzed[1].bias = "BULLISH"
    /\ analyzed[1].atr = Num(0)
    /\ analyzed[1].ret = None
    /\ results = <<>>

\* C9: for one instrument the fetcher is invoked once per timeframe, DAILY,
\* 4H, 1H, 15M in turn, never twice; the TimeframeSet holds exactly the
\* timeframes whose fetch succeeded; the pass fails at aggregation exactly
\* when the primary timeframe is missing, so DAILY, 4H and 1H without 15M go
\* on to structure analysis.
C9_OneFetchPerTimeframe ==
    /\ Len(requests) = tf_idx
    /\ \A i \in 1..Len(requests) : requests[i].tf = (<<"DAILY", "4H", "1H", "15M">>)[i]
    /\ DOMAIN tfset = {requests[i].tf : i \in {j \in 1..Len(requests) : requests[j].ok}}
    /\ \A i \in 1..Len(analyzed) :
          /\ Len(analyzed[i].requests) = 4
          /\ \A j \in 1..4 : analyzed[i].requests[j].tf = (<<"DAILY", "4H", "1H", "15M">>)[j]
          /\ analyzed[i].timeframes = {analyzed[i].requests[j].tf :
                                         j \in {k \in 1..4 : analyzed[i].requests[k].ok}}
          /\ analyzed[i].stage = "aggregation" <=> "1H" \notin analyzed[i].timeframes
          /\ analyzed[i].timeframes = {"DAILY", "4H", "1H"} => analyzed[i].stage # "aggregation"

\* only the 15M fetch failed, and the pass produced a setup
C9_Witness ==
    /\ Len(analyzed) = 1
    /\ analyzed[1].timeframes = {"DAILY", "4H", "1H"}
    /\ ~analyzed[1].requests[4].ok
    /\ analyzed[1].stage = "ok"

----------------------------------------------------------------------------
(* Properties of the analysis cycle (checked under Spec) *)

RECURSIVE Kept(_)
Kept(log) ==
    IF log = <<>> THEN <<>>
    ELSE Kept(SubSeq(log, 1, Len(log) - 1)) \o log[Len(log)].ret

\* C8: a cycle over a non-empty selection analyzes every selected
\* instrument once, in selection order, whatever earlier passes returned;
\* when the script run has ended, results is the sequence of returned setups
\* in that order and the run ended normally if there was no setup.
C8_EveryPairOnceInOrder ==
    /\ Len(analyzed) = idx
    /\ \A i \in 1..Len(analyzed) : analyzed[i].pair = selected_pairs[i]
    /\ results = Kept(analyzed)
    /\ pc \in {"finished", "sleeping", "crashed"} => Len(analyzed) = Len(selected_pairs)
    /\ pc = "crashed" => results # <<>>

====
